---------------------------- MODULE Spec2Model ----------------------------
(***************************************************************************)
(* Liquidity amount functions of the non-fungible position manager         *)
(* (libraries/liquidity_amounts.rs): conversions between liquidity and     *)
(* token amounts over a price range, in Q32 fixed point.                   *)
(*                                                                         *)
(* The code computes on u64 values with u128 intermediates.  TLC's         *)
(* integers are 32 bits wide, so every program value is held here as a     *)
(* natural number in multi-limb form: a little-endian sequence of limbs in *)
(* 0..Base-1 without trailing zero limbs (zero is the empty sequence).     *)
(* The representation is canonical, so = on two such sequences is = on the *)
(* numbers they stand for, and all widths are the program's own.           *)
(***************************************************************************)
EXTENDS Integers, Sequences, FiniteSets, TLC

\* ------------------------------------------------------------------------
\* Unbounded natural-number arithmetic (the u64 / u128 values of the code)
\* ------------------------------------------------------------------------

\* The limb radix; Base * Base stays below TLC's integer limit.
Base == 2^15

Zero == <<>>

RECURSIVE Norm(_)
\* Drop the most significant zero limbs.
Norm(s) ==
    IF s = <<>> THEN <<>>
    ELSE IF s[Len(s)] = 0 THEN Norm(SubSeq(s, 1, Len(s) - 1))
    ELSE s

RECURSIVE FromNat(_)
\* The multi-limb form of a small natural number.
FromNat(n) ==
    IF n = 0 THEN <<>> ELSE <<n % Base>> \o FromNat(n \div Base)

One == FromNat(1)

Rest(s) == IF s = <<>> THEN <<>> ELSE Tail(s)

Low(s) == IF s = <<>> THEN 0 ELSE Head(s)

RECURSIVE AddC(_, _, _)
AddC(x, y, c) ==
    IF x = <<>> /\ y = <<>>
    THEN (IF c = 0 THEN <<>> ELSE <<c>>)
    ELSE LET s == Low(x) + Low(y) + c
         IN  <<s % Base>> \o AddC(Rest(x), Rest(y), s \div Base)

\* x + y
Add(x, y) == AddC(x, y, 0)

RECURSIVE SubB(_, _, _)
SubB(x, y, b) ==
    IF x = <<>> THEN <<>>
    ELSE LET s == Low(x) - Low(y) - b
         IN  IF s < 0
             THEN <<s + Base>> \o SubB(Rest(x), Rest(y), 1)
             ELSE <<s>> \o SubB(Rest(x), Rest(y), 0)

\* x - y, for y <= x
Sub(x, y) == Norm(SubB(x, y, 0))

RECURSIVE CmpFrom(_, _, _)
\* Compare limb by limb from position i downwards: -1, 0 or 1.
CmpFrom(x, y, i) ==
    IF i = 0 THEN 0
    ELSE IF x[i] < y[i] THEN -1
    ELSE IF x[i] > y[i] THEN 1
    ELSE CmpFrom(x, y, i - 1)

Cmp(x, y) ==
    IF Len(x) < Len(y) THEN -1
    ELSE IF Len(x) > Len(y) THEN 1
    ELSE CmpFrom(x, y, Len(x))

Lt(x, y) == Cmp(x, y) < 0

Le(x, y) == Cmp(x, y) <= 0

Gt(x, y) == Cmp(x, y) > 0

Ge(x, y) == Cmp(x, y) >= 0

RECURSIVE MulSmallC(_, _, _)
MulSmallC(x, k, c) ==
    IF x = <<>> THEN (IF c = 0 THEN <<>> ELSE <<c>>)
    ELSE LET p == Head(x) * k + c
         IN  <<p % Base>> \o MulSmallC(Tail(x), k, p \div Base)

\* x * k for a single limb k
MulSmall(x, k) == IF k = 0 THEN <<>> ELSE MulSmallC(x, k, 0)

\* x * Base
ShiftLimb(x) == IF x = <<>> THEN <<>> ELSE <<0>> \o x

RECURSIVE Mul(_, _)
\* x * y
Mul(x, y) ==
    IF x = <<>> \/ y = <<>> THEN <<>>
    ELSE Add(MulSmall(x, Head(y)), ShiftLimb(Mul(x, Tail(y))))

RECURSIVE Pow2(_)
\* 2^n
Pow2(n) ==
    IF n = 0 THEN One
    ELSE IF n % 2 = 1 THEN MulSmall(Pow2(n - 1), 2)
    ELSE LET h == Pow2(n \div 2) IN Mul(h, h)

RECURSIVE QuotDigit(_, _, _)
\* The largest q <= qhat with q * d <= r (qhat is an upper estimate).
QuotDigit(r, d, qhat) ==
    IF Le(MulSmall(d, qhat), r) THEN qhat ELSE QuotDigit(r, d, qhat - 1)

\* An upper estimate of floor(r / d) from the leading limbs, for r < d * Base.
QuotEstimate(r, d) ==
    LET n  == Len(d)
        rt == IF Len(r) > n THEN r[n + 1] * Base + r[n] ELSE r[n]
        q  == rt \div d[n]
    IN  IF q > Base - 1 THEN Base - 1 ELSE q

RECURSIVE DivStep(_, _, _, _)
\* Long division: limbs x[i], x[i-1], ... are still to be brought down,
\* r < d is the running remainder.  Returns the quotient limbs x[1..i] yield.
DivStep(x, d, i, r) ==
    IF i = 0 THEN <<>>
    ELSE LET r1 == Norm(<<x[i]>> \o r)
             q  == IF Len(r1) < Len(d) THEN 0
                   ELSE QuotDigit(r1, d, QuotEstimate(r1, d))
             r2 == Sub(r1, MulSmall(d, q))
         IN  Append(DivStep(x, d, i - 1, r2), q)

\* floor(x / d), for d # 0.  Numerator and divisor are first scaled by the
\* same factor so that the divisor's leading limb is at least Base / 2,
\* which keeps the digit estimate within 2 of the true digit.
Div(x, d) ==
    LET f == Base \div (d[Len(d)] + 1)
        xs == MulSmall(x, f)
        ds == MulSmall(d, f)
    IN  Norm(DivStep(xs, ds, Len(xs), <<>>))

Min(x, y) == IF Le(x, y) THEN x ELSE y

Max(x, y) == IF Le(x, y) THEN y ELSE x

\* x mod m, for m # 0
Mod(x, m) == Sub(x, Mul(Div(x, m), m))

RECURSIVE IsqrtIter(_, _)
\* Newton's iteration for the integer square root, from a start x >= sqrt(n).
IsqrtIter(n, x) ==
    LET y == Div(Add(x, Div(n, x)), FromNat(2))
    IN  IF Ge(y, x) THEN x ELSE IsqrtIter(n, y)

\* floor(sqrt(n))
Isqrt(n) == IF n = Zero THEN Zero ELSE IsqrtIter(n, Pow2(Len(n) * 8))

\* ------------------------------------------------------------------------
\* The integer types and the fixed-point constants
\* ------------------------------------------------------------------------

\* fixed_point_x32::RESOLUTION
RESOLUTION == 32

\* fixed_point_x32::Q32 = 2^32
Q32 == Pow2(RESOLUTION)

\* u32::MAX
U32_MAX == Sub(Pow2(32), One)

\* u64::MAX
U64_MAX == Sub(Pow2(64), One)

\* A call that returns v.
Returns(v) == [ok |-> TRUE, val |-> v]

\* A call that panics (unwrap of None, a failed try_from, a division by
\* zero): it returns no value.
Panic == [ok |-> FALSE, val |-> <<>>]

\* muldiv's u64::mul_div_floor: floor(x * num / denom) through a u128
\* product; no value when denom is zero or the quotient exceeds u64::MAX.
\* The code unwraps every result, so "no value" is a panic of the caller.
mul_div_floor(x, num, denom) ==
    IF denom = Zero THEN Panic
    ELSE LET r == Div(Mul(x, num), denom)
         IN  IF Gt(r, U64_MAX) THEN Panic ELSE Returns(r)

\* A wrapping cast (x as u32) in place of the checked conversion.
u32_wrapping(x) == Returns(Mod(x, Pow2(32)))

\* A saturating conversion in place of the checked one.
u32_saturating(x) == Returns(IF Gt(x, U32_MAX) THEN U32_MAX ELSE x)

\* u32::try_from(x).unwrap() for a u64 x
u32_try_from(x) == IF Gt(x, U32_MAX) THEN Panic ELSE Returns(x)

\* (liquidity as u64) << n: bits shifted beyond bit 63 are lost.
shl_u64(x, n) ==
    LET p == Mul(x, Pow2(n))
    IN  IF Le(p, U64_MAX) THEN p ELSE Mod(p, Pow2(64))

\* The boundary swap every function starts with: after it the first
\* boundary holds the smaller value.
swap_if_greater(sqrt_a, sqrt_b) ==
    IF Gt(sqrt_a, sqrt_b) THEN <<sqrt_b, sqrt_a>> ELSE <<sqrt_a, sqrt_b>>

\* ------------------------------------------------------------------------
\* The six conversion functions
\* ------------------------------------------------------------------------

\* get_liquidity_for_amount_0 with a zero-width range masked as liquidity 0
\* instead of reaching the division.
get_liquidity_for_amount_0_masked(sqrt_a, sqrt_b, amt_0) ==
    LET s == swap_if_greater(sqrt_a, sqrt_b)
        intermediate == mul_div_floor(s[1], s[2], Q32)
    IN  IF s[1] = s[2] THEN Returns(Zero)
        ELSE IF ~intermediate.ok THEN Panic
        ELSE LET l == mul_div_floor(amt_0, intermediate.val, Sub(s[2], s[1]))
             IN  IF ~l.ok THEN Panic ELSE u32_try_from(l.val)

\* dL = dx (sqrtP_upper * sqrtP_lower) / (sqrtP_upper - sqrtP_lower)
get_liquidity_for_amount_0(sqrt_a, sqrt_b, amt_0) ==
    LET s == swap_if_greater(sqrt_a, sqrt_b)
        intermediate == mul_div_floor(s[1], s[2], Q32)
    IN  IF ~intermediate.ok THEN Panic
        ELSE LET l == mul_div_floor(amt_0, intermediate.val, Sub(s[2], s[1]))
             IN  IF ~l.ok THEN Panic ELSE u32_try_from(l.val)

\* get_liquidity_for_amount_1 rounding the quotient up.
get_liquidity_for_amount_1_round_up(sqrt_a, sqrt_b, amt_1) ==
    LET s == swap_if_greater(sqrt_a, sqrt_b)
        d == Sub(s[2], s[1])
        l == mul_div_floor(amt_1, Q32, d)
    IN  IF ~l.ok THEN Panic
        ELSE IF Mul(l.val, d) = Mul(amt_1, Q32) THEN u32_try_from(l.val)
        ELSE u32_try_from(Add(l.val, One))

\* get_liquidity_for_amount_1 without the boundary swap: the subtraction
\* underflows (a panic under overflow checks) when the first boundary is
\* the larger one.
get_liquidity_for_amount_1_unordered(sqrt_a, sqrt_b, amt_1) ==
    IF Gt(sqrt_a, sqrt_b) THEN Panic
    ELSE LET l == mul_div_floor(amt_1, Q32, Sub(sqrt_b, sqrt_a))
         IN  IF ~l.ok THEN Panic ELSE u32_try_from(l.val)

\* dL = dy / (sqrtP_upper - sqrtP_lower)
get_liquidity_for_amount_1(sqrt_a, sqrt_b, amt_1) ==
    LET s == swap_if_greater(sqrt_a, sqrt_b)
        l == mul_div_floor(amt_1, Q32, Sub(s[2], s[1]))
    IN  IF ~l.ok THEN Panic ELSE u32_try_from(l.val)

\* u32::max in place of u32::min.
max_u32(l0, l1) ==
    IF ~l0.ok \/ ~l1.ok THEN Panic
    ELSE Returns(IF Le(l0.val, l1.val) THEN l1.val ELSE l0.val)

\* u32::min of two calls: both are evaluated, and either one's panic is
\* the caller's.
min_u32(l0, l1) ==
    IF ~l0.ok \/ ~l1.ok THEN Panic
    ELSE Returns(IF Le(l0.val, l1.val) THEN l0.val ELSE l1.val)

\* get_liquidity_for_amounts with the tie at the lower boundary sent to the
\* two-sided branch (< in place of <=).
get_liquidity_for_amounts_strict(sqrt_p, sqrt_a, sqrt_b, amt_0, amt_1) ==
    LET s == swap_if_greater(sqrt_a, sqrt_b)
    IN  IF Lt(sqrt_p, s[1])
        THEN get_liquidity_for_amount_0(s[1], s[2], amt_0)
        ELSE IF Lt(sqrt_p, s[2])
        THEN min_u32(get_liquidity_for_amount_0(sqrt_p, s[2], amt_0),
                     get_liquidity_for_amount_1(s[1], sqrt_p, amt_1))
        ELSE get_liquidity_for_amount_1(s[1], s[2], amt_1)

get_liquidity_for_amounts(sqrt_p, sqrt_a, sqrt_b, amt_0, amt_1) ==
    LET s == swap_if_greater(sqrt_a, sqrt_b)
    IN  IF Le(sqrt_p, s[1])
        THEN get_liquidity_for_amount_0(s[1], s[2], amt_0)
        ELSE IF Lt(sqrt_p, s[2])
        THEN min_u32(get_liquidity_for_amount_0(sqrt_p, s[2], amt_0),
                     get_liquidity_for_amount_1(s[1], sqrt_p, amt_1))
        ELSE get_liquidity_for_amount_1(s[1], s[2], amt_1)

\* get_amount_0_for_liquidity without the shift of the liquidity by
\* RESOLUTION bits.
get_amount_0_for_liquidity_unshifted(sqrt_a, sqrt_b, liq) ==
    LET s == swap_if_greater(sqrt_a, sqrt_b)
        m == mul_div_floor(liq, Sub(s[2], s[1]), s[2])
    IN  IF ~m.ok THEN Panic
        ELSE IF s[1] = Zero THEN Panic
        ELSE Returns(Div(m.val, s[1]))

\* get_amount_0_for_liquidity with the two divisors exchanged: the
\* multiply-divide is by the lower boundary, the final division by the
\* upper one.
get_amount_0_for_liquidity_divisors_exchanged(sqrt_a, sqrt_b, liq) ==
    LET s == swap_if_greater(sqrt_a, sqrt_b)
        m == mul_div_floor(shl_u64(liq, RESOLUTION), Sub(s[2], s[1]), s[1])
    IN  IF ~m.ok THEN Panic
        ELSE IF s[2] = Zero THEN Panic
        ELSE Returns(Div(m.val, s[2]))

\* dx = dL (sqrtP_upper - sqrtP_lower) / (sqrtP_upper * sqrtP_lower)
get_amount_0_for_liquidity(sqrt_a, sqrt_b, liq) ==
    LET s == swap_if_greater(sqrt_a, sqrt_b)
        m == mul_div_floor(shl_u64(liq, RESOLUTION), Sub(s[2], s[1]), s[2])
    IN  IF ~m.ok THEN Panic
        ELSE IF s[1] = Zero THEN Panic
        ELSE Returns(Div(m.val, s[1]))

\* get_amount_1_for_liquidity rejecting a zero-width range, as the
\* liquidity computations do.
get_amount_1_for_liquidity_rejecting(sqrt_a, sqrt_b, liq) ==
    LET s == swap_if_greater(sqrt_a, sqrt_b)
    IN  IF s[1] = s[2] THEN Panic
        ELSE mul_div_floor(liq, Sub(s[2], s[1]), Q32)

\* get_amount_1_for_liquidity rounding the quotient up.
get_amount_1_for_liquidity_round_up(sqrt_a, sqrt_b, liq) ==
    LET s == swap_if_greater(sqrt_a, sqrt_b)
        d == Sub(s[2], s[1])
        m == mul_div_floor(liq, d, Q32)
    IN  IF ~m.ok THEN Panic
        ELSE IF Mul(m.val, Q32) = Mul(liq, d) THEN m
        ELSE Returns(Add(m.val, One))

\* dy = dL (sqrtP_upper - sqrtP_lower)
get_amount_1_for_liquidity(sqrt_a, sqrt_b, liq) ==
    LET s == swap_if_greater(sqrt_a, sqrt_b)
    IN  mul_div_floor(liq, Sub(s[2], s[1]), Q32)

\* The tuple (amount_0, amount_1) of two results; a panic of either call is
\* the caller's.
pair(r0, r1) ==
    IF ~r0.ok \/ ~r1.ok THEN Panic ELSE Returns(<<r0.val, r1.val>>)

\* get_amounts_for_liquidity valuing both tokens over the whole range when
\* the price is inside it (the current price is not used as a boundary).
get_amounts_for_liquidity_whole_range(sqrt_p, sqrt_a, sqrt_b, liq) ==
    LET s == swap_if_greater(sqrt_a, sqrt_b)
    IN  IF Le(sqrt_p, s[1])
        THEN pair(get_amount_0_for_liquidity(s[1], s[2], liq), Returns(Zero))
        ELSE IF Lt(sqrt_p, s[2])
        THEN pair(get_amount_0_for_liquidity(s[1], s[2], liq),
                  get_amount_1_for_liquidity(s[1], s[2], liq))
        ELSE pair(Returns(Zero), get_amount_1_for_liquidity(s[1], s[2], liq))

get_amounts_for_liquidity(sqrt_p, sqrt_a, sqrt_b, liq) ==
    LET s == swap_if_greater(sqrt_a, sqrt_b)
    IN  IF Le(sqrt_p, s[1])
        THEN pair(get_amount_0_for_liquidity(s[1], s[2], liq), Returns(Zero))
        ELSE IF Lt(sqrt_p, s[2])
        THEN pair(get_amount_0_for_liquidity(sqrt_p, s[2], liq),
                  get_amount_1_for_liquidity(s[1], sqrt_p, liq))
        ELSE pair(Returns(Zero), get_amount_1_for_liquidity(s[1], s[2], liq))

\* round(sqrt(reserve_1 / reserve_0) * 2^32), for reserve_0 > 0.  With
\* m = floor(sqrt(4 * reserve_1 * 2^64 / reserve_0)) = floor(2 * x), the
\* rounding of x to the nearest integer is (m + 1) div 2.  (The code
\* evaluates x in f64, whose 53-bit mantissa places the values used here
\* on the same integer.)
encode_price_sqrt_x32(reserve_1, reserve_0) ==
    LET n == Div(Mul(Mul(FromNat(4), FromNat(reserve_1)), Pow2(64)),
                 FromNat(reserve_0))
    IN  Div(Add(Isqrt(n), One), FromNat(2))

\* ------------------------------------------------------------------------
\* The calls: one action per function, its arguments drawn from the sets
\* below, its outcome kept in result
\* ------------------------------------------------------------------------

VARIABLES
    op,                 \* "idle", or the function that was called
    sqrt_ratio_x32,     \* the current pool price of the call
    sqrt_ratio_a_x32,   \* the first tick boundary of the call
    sqrt_ratio_b_x32,   \* the second tick boundary of the call
    amount_0,           \* the amount of token_0 sent in
    amount_1,           \* the amount of token_1 sent in
    liquidity,          \* the liquidity being valued
    result              \* Returns(value) or Panic

vars == <<op, sqrt_ratio_x32, sqrt_ratio_a_x32, sqrt_ratio_b_x32,
          amount_0, amount_1, liquidity, result>>

\* How far the argument sets reach from 0, from 2^32 and from the maxima.
MaxOffset == 1

\* The prices of the tests: ratios 1:1, 100:110, 110:100, 99:110, 111:100.
ReferencePrices ==
    { encode_price_sqrt_x32(1, 1),
      encode_price_sqrt_x32(100, 110), encode_price_sqrt_x32(110, 100),
      encode_price_sqrt_x32(99, 110), encode_price_sqrt_x32(111, 100) }

\* u64 square-root prices: the tests' prices, the smallest values (zero
\* included), the values just above 2^32 and the largest value.
Prices ==
    ReferencePrices
    \cup { FromNat(k) : k \in 0..MaxOffset }
    \cup { Add(Q32, FromNat(k)) : k \in 1..MaxOffset }
    \cup { U64_MAX }

\* u64 token amounts: the tests' deposits, the smallest and the largest.
Amounts ==
    { FromNat(100), FromNat(200) }
    \cup { FromNat(k) : k \in 0..MaxOffset }
    \cup { U64_MAX }

\* u32 liquidity values: the tests' values, the smallest and the largest.
Liquidities ==
    { FromNat(1048), FromNat(2097), FromNat(2148) }
    \cup { FromNat(k) : k \in 0..MaxOffset }
    \cup { U32_MAX }

Init ==
    /\ op = "idle"
    /\ sqrt_ratio_x32 = Zero
    /\ sqrt_ratio_a_x32 = Zero
    /\ sqrt_ratio_b_x32 = Zero
    /\ amount_0 = Zero
    /\ amount_1 = Zero
    /\ liquidity = Zero
    /\ result = Panic

CallLiquidityForAmount0 ==
    /\ op = "idle"
    /\ \E a \in Prices, b \in Prices, x \in Amounts :
          /\ sqrt_ratio_a_x32' = a
          /\ sqrt_ratio_b_x32' = b
          /\ amount_0' = x
          /\ result' = get_liquidity_for_amount_0(a, b, x)
    /\ op' = "get_liquidity_for_amount_0"
    /\ UNCHANGED <<sqrt_ratio_x32, amount_1, liquidity>>

CallLiquidityForAmount1 ==
    /\ op = "idle"
    /\ \E a \in Prices, b \in Prices, y \in Amounts :
          /\ sqrt_ratio_a_x32' = a
          /\ sqrt_ratio_b_x32' = b
          /\ amount_1' = y
          /\ result' = get_liquidity_for_amount_1(a, b, y)
    /\ op' = "get_liquidity_for_amount_1"
    /\ UNCHANGED <<sqrt_ratio_x32, amount_0, liquidity>>

CallLiquidityForAmounts ==
    /\ op = "idle"
    /\ \E p \in Prices, a \in Prices, b \in Prices,
          x \in Amounts, y \in Amounts :
          /\ sqrt_ratio_x32' = p
          /\ sqrt_ratio_a_x32' = a
          /\ sqrt_ratio_b_x32' = b
          /\ amount_0' = x
          /\ amount_1' = y
          /\ result' = get_liquidity_for_amounts(p, a, b, x, y)
    /\ op' = "get_liquidity_for_amounts"
    /\ UNCHANGED liquidity

CallAmount0ForLiquidity ==
    /\ op = "idle"
    /\ \E a \in Prices, b \in Prices, l \in Liquidities :
          /\ sqrt_ratio_a_x32' = a
          /\ sqrt_ratio_b_x32' = b
          /\ liquidity' = l
          /\ result' = get_amount_0_for_liquidity(a, b, l)
    /\ op' = "get_amount_0_for_liquidity"
    /\ UNCHANGED <<sqrt_ratio_x32, amount_0, amount_1>>

CallAmount1ForLiquidity ==
    /\ op = "idle"
    /\ \E a \in Prices, b \in Prices, l \in Liquidities :
          /\ sqrt_ratio_a_x32' = a
          /\ sqrt_ratio_b_x32' = b
          /\ liquidity' = l
          /\ result' = get_amount_1_for_liquidity(a, b, l)
    /\ op' = "get_amount_1_for_liquidity"
    /\ UNCHANGED <<sqrt_ratio_x32, amount_0, amount_1>>

CallAmountsForLiquidity ==
    /\ op = "idle"
    /\ \E p \in Prices, a \in Prices, b \in Prices, l \in Liquidities :
          /\ sqrt_ratio_x32' = p
          /\ sqrt_ratio_a_x32' = a
          /\ sqrt_ratio_b_x32' = b
          /\ liquidity' = l
          /\ result' = get_amounts_for_liquidity(p, a, b, l)
    /\ op' = "get_amounts_for_liquidity"
    /\ UNCHANGED <<amount_0, amount_1>>

Next ==
    \/ CallLiquidityForAmount0
    \/ CallLiquidityForAmount1
    \/ CallLiquidityForAmounts
    \/ CallAmount0ForLiquidity
    \/ CallAmount1ForLiquidity
    \/ CallAmountsForLiquidity

Spec == Init /\ [][Next]_vars

\* ------------------------------------------------------------------------
\* Properties
\* ------------------------------------------------------------------------

\* The boundaries of the call in order.
lower == Min(sqrt_ratio_a_x32, sqrt_ratio_b_x32)

upper == Max(sqrt_ratio_a_x32, sqrt_ratio_b_x32)

\* The amounts the liquidity returned by get_liquidity_for_amounts is worth
\* at the same price and boundaries.
AmountsBack ==
    get_amounts_for_liquidity(sqrt_ratio_x32, sqrt_ratio_a_x32,
                              sqrt_ratio_b_x32, result.val)

\* C1: round trip never overstates.  Whenever get_liquidity_for_amounts
\* returns L for a deposit (amount_0, amount_1) and get_amounts_for_liquidity
\* returns (x, y) for L at the same price and boundaries, x <= amount_0 and
\* y <= amount_1.
RoundTripNeverOverstates ==
    (op = "get_liquidity_for_amounts" /\ result.ok /\ AmountsBack.ok) =>
        /\ Le(AmountsBack.val[1], amount_0)
        /\ Le(AmountsBack.val[2], amount_1)

\* A two-sided deposit whose liquidity is worth strictly less than the
\* deposit on both sides, and more than nothing.
RoundTripWitness ==
    /\ op = "get_liquidity_for_amounts"
    /\ result.ok
    /\ Lt(lower, sqrt_ratio_x32) /\ Lt(sqrt_ratio_x32, upper)
    /\ AmountsBack.ok
    /\ Gt(AmountsBack.val[1], Zero) /\ Lt(AmountsBack.val[1], amount_0)
    /\ Gt(AmountsBack.val[2], Zero) /\ Lt(AmountsBack.val[2], amount_1)

\* C2: normalization symmetry.  Each of the six functions gives the same
\* outcome (the same value, or a panic in both calls) when the two
\* boundaries are passed in the other order, all else equal.
NormalizationSymmetry ==
    /\ op = "get_liquidity_for_amount_0" =>
          result = get_liquidity_for_amount_0(sqrt_ratio_b_x32,
                                              sqrt_ratio_a_x32, amount_0)
    /\ op = "get_liquidity_for_amount_1" =>
          result = get_liquidity_for_amount_1(sqrt_ratio_b_x32,
                                              sqrt_ratio_a_x32, amount_1)
    /\ op = "get_liquidity_for_amounts" =>
          result = get_liquidity_for_amounts(sqrt_ratio_x32, sqrt_ratio_b_x32,
                                             sqrt_ratio_a_x32, amount_0,
                                             amount_1)
    /\ op = "get_amount_0_for_liquidity" =>
          result = get_amount_0_for_liquidity(sqrt_ratio_b_x32,
                                              sqrt_ratio_a_x32, liquidity)
    /\ op = "get_amount_1_for_liquidity" =>
          result = get_amount_1_for_liquidity(sqrt_ratio_b_x32,
                                              sqrt_ratio_a_x32, liquidity)
    /\ op = "get_amounts_for_liquidity" =>
          result = get_amounts_for_liquidity(sqrt_ratio_x32, sqrt_ratio_b_x32,
                                             sqrt_ratio_a_x32, liquidity)

\* A call that passed the larger boundary first, so that the swap took
\* place, and returned a positive liquidity.
NormalizationSymmetryWitness ==
    /\ op = "get_liquidity_for_amount_1"
    /\ Gt(sqrt_ratio_a_x32, sqrt_ratio_b_x32)
    /\ result.ok
    /\ Gt(result.val, Zero)

\* The smaller of two outcomes; no value when either call gave none.
MinOutcome(r0, r1) ==
    IF r0.ok /\ r1.ok THEN Returns(Min(r0.val, r1.val)) ELSE Panic

\* C3: the three-way branch of get_liquidity_for_amounts, ties included.
\* With lower = min(a, b) and upper = max(a, b) the outcome is
\* get_liquidity_for_amount_0(lower, upper, amount_0) when price <= lower,
\* the minimum of get_liquidity_for_amount_0(price, upper, amount_0) and
\* get_liquidity_for_amount_1(lower, price, amount_1) when
\* lower < price < upper, and get_liquidity_for_amount_1(lower, upper,
\* amount_1) when price >= upper; in the single-sided branches the other
\* token's amount does not influence the outcome.
LiquidityForAmountsBranches ==
    op = "get_liquidity_for_amounts" =>
        /\ Le(sqrt_ratio_x32, lower) =>
              /\ result = get_liquidity_for_amount_0(lower, upper, amount_0)
              /\ \A y \in Amounts :
                    get_liquidity_for_amounts(sqrt_ratio_x32,
                        sqrt_ratio_a_x32, sqrt_ratio_b_x32, amount_0, y)
                    = result
        /\ (Lt(lower, sqrt_ratio_x32) /\ Lt(sqrt_ratio_x32, upper)) =>
              result = MinOutcome(
                  get_liquidity_for_amount_0(sqrt_ratio_x32, upper, amount_0),
                  get_liquidity_for_amount_1(lower, sqrt_ratio_x32, amount_1))
        /\ Ge(sqrt_ratio_x32, upper) =>
              /\ result = get_liquidity_for_amount_1(lower, upper, amount_1)
              /\ \A x \in Amounts :
                    get_liquidity_for_amounts(sqrt_ratio_x32,
                        sqrt_ratio_a_x32, sqrt_ratio_b_x32, x, amount_1)
                    = result

\* The price exactly at the lower boundary of a proper range: the call
\* returns the token_0 liquidity, which differs from the token_1 liquidity
\* of the same deposit.
LiquidityForAmountsBranchesWitness ==
    /\ op = "get_liquidity_for_amounts"
    /\ sqrt_ratio_x32 = lower
    /\ Lt(lower, upper)
    /\ result.ok
    /\ Gt(result.val, Zero)
    /\ result # get_liquidity_for_amount_1(lower, upper, amount_1)

\* C4 as claimed: the three-way branch of get_amounts_for_liquidity, ties
\* included.  The outcome is (get_amount_0_for_liquidity(lower, upper, L), 0)
\* when price <= lower, (get_amount_0_for_liquidity(price, upper, L),
\* get_amount_1_for_liquidity(lower, price, L)) when lower < price < upper,
\* and (0, get_amount_1_for_liquidity(lower, upper, L)) when price >= upper.
\* The first and the third case both cover price = lower = upper.
AmountsForLiquidityBranchesAsClaimed ==
    op = "get_amounts_for_liquidity" =>
        /\ Le(sqrt_ratio_x32, lower) =>
              LET x == get_amount_0_for_liquidity(lower, upper, liquidity)
              IN  /\ result.ok = x.ok
                  /\ result.ok => result.val = <<x.val, Zero>>
        /\ (Lt(lower, sqrt_ratio_x32) /\ Lt(sqrt_ratio_x32, upper)) =>
              LET x == get_amount_0_for_liquidity(sqrt_ratio_x32, upper,
                                                  liquidity)
                  y == get_amount_1_for_liquidity(lower, sqrt_ratio_x32,
                                                  liquidity)
              IN  /\ result.ok = (x.ok /\ y.ok)
                  /\ result.ok => result.val = <<x.val, y.val>>
        /\ Ge(sqrt_ratio_x32, upper) =>
              LET y == get_amount_1_for_liquidity(lower, upper, liquidity)
              IN  /\ result.ok = y.ok
                  /\ result.ok => result.val = <<Zero, y.val>>

\* C4 amended: the three cases are taken in order, so the third case,
\* (0, get_amount_1_for_liquidity(lower, upper, L)), applies when
\* price >= upper and price > lower.  A price equal to both boundaries of a
\* zero-width range is valued by the first case alone (and the call fails
\* there when that boundary is zero).
AmountsForLiquidityBranches ==
    op = "get_amounts_for_liquidity" =>
        /\ Le(sqrt_ratio_x32, lower) =>
              LET x == get_amount_0_for_liquidity(lower, upper, liquidity)
              IN  /\ result.ok = x.ok
                  /\ result.ok => result.val = <<x.val, Zero>>
        /\ (Lt(lower, sqrt_ratio_x32) /\ Lt(sqrt_ratio_x32, upper)) =>
              LET x == get_amount_0_for_liquidity(sqrt_ratio_x32, upper,
                                                  liquidity)
                  y == get_amount_1_for_liquidity(lower, sqrt_ratio_x32,
                                                  liquidity)
              IN  /\ result.ok = (x.ok /\ y.ok)
                  /\ result.ok => result.val = <<x.val, y.val>>
        /\ (Ge(sqrt_ratio_x32, upper) /\ Gt(sqrt_ratio_x32, lower)) =>
              LET y == get_amount_1_for_liquidity(lower, upper, liquidity)
              IN  /\ result.ok = y.ok
                  /\ result.ok => result.val = <<Zero, y.val>>

\* A price strictly inside the range with both amounts positive.
AmountsForLiquidityBranchesWitness ==
    /\ op = "get_amounts_for_liquidity"
    /\ Lt(lower, sqrt_ratio_x32) /\ Lt(sqrt_ratio_x32, upper)
    /\ result.ok
    /\ Gt(result.val[1], Zero)
    /\ Gt(result.val[2], Zero)

\* C5 as claimed: range-split conservation.  For lower < price < upper and
\* liquidity > 0, get_amounts_for_liquidity returns a pair with at least one
\* strictly positive amount.
RangeSplitConservationAsClaimed ==
    (/\ op = "get_amounts_for_liquidity"
     /\ Lt(lower, sqrt_ratio_x32) /\ Lt(sqrt_ratio_x32, upper)
     /\ Gt(liquidity, Zero)) =>
        /\ result.ok
        /\ Gt(result.val[1], Zero) \/ Gt(result.val[2], Zero)

\* C5 amended: for lower < price < upper and liquidity > 0 the call
\* returns a pair (x, y), never fails, and each side is positive exactly
\* when its floored quotient reaches 1: y > 0 iff
\* liquidity * (price - lower) >= 2^32, and x > 0 iff
\* floor(liquidity * 2^32 * (upper - price) / upper) >= price.  Both are 0
\* when neither holds.
RangeSplitConservation ==
    (/\ op = "get_amounts_for_liquidity"
     /\ Lt(lower, sqrt_ratio_x32) /\ Lt(sqrt_ratio_x32, upper)
     /\ Gt(liquidity, Zero)) =>
        /\ result.ok
        /\ Gt(result.val[2], Zero) <=>
              Ge(Mul(liquidity, Sub(sqrt_ratio_x32, lower)), Pow2(32))
        /\ Gt(result.val[1], Zero) <=>
              Ge(Div(Mul(Mul(liquidity, Pow2(32)),
                         Sub(upper, sqrt_ratio_x32)), upper),
                 sqrt_ratio_x32)

\* A positive liquidity inside a proper range that is worth nothing on
\* either side.
RangeSplitConservationWitness ==
    /\ op = "get_amounts_for_liquidity"
    /\ Lt(lower, sqrt_ratio_x32) /\ Lt(sqrt_ratio_x32, upper)
    /\ Gt(liquidity, Zero)
    /\ result = Returns(<<Zero, Zero>>)

\* C6: monotonicity in the amount.  For fixed boundaries, whenever the call
\* with an amount returns a value, the call with any smaller amount returns
\* a value too, and one that is not larger; for get_liquidity_for_amount_0
\* and for get_liquidity_for_amount_1.
MonotoneInAmount ==
    /\ (op = "get_liquidity_for_amount_0" /\ result.ok) =>
          \A x \in Amounts :
              Le(x, amount_0) =>
                  LET r == get_liquidity_for_amount_0(sqrt_ratio_a_x32,
                                                      sqrt_ratio_b_x32, x)
                  IN  r.ok /\ Le(r.val, result.val)
    /\ (op = "get_liquidity_for_amount_1" /\ result.ok) =>
          \A y \in Amounts :
              Le(y, amount_1) =>
                  LET r == get_liquidity_for_amount_1(sqrt_ratio_a_x32,
                                                      sqrt_ratio_b_x32, y)
                  IN  r.ok /\ Le(r.val, result.val)

\* A call that returned a liquidity strictly larger than the one a smaller,
\* non-zero amount gives.
MonotoneInAmountWitness ==
    /\ op = "get_liquidity_for_amount_0"
    /\ result.ok
    /\ \E x \in Amounts :
          /\ Gt(x, Zero) /\ Lt(x, amount_0)
          /\ LET r == get_liquidity_for_amount_0(sqrt_ratio_a_x32,
                                                 sqrt_ratio_b_x32, x)
             IN  r.ok /\ Gt(r.val, Zero) /\ Lt(r.val, result.val)

\* floor(lower * upper / 2^32) in unbounded integers.
ExactIntermediate == Div(Mul(lower, upper), Pow2(32))

\* floor(amount_0 * intermediate / (upper - lower)) in unbounded integers,
\* for lower < upper.
ExactLiquidity0 == Div(Mul(amount_0, ExactIntermediate), Sub(upper, lower))

\* floor(amount_1 * 2^32 / (upper - lower)) in unbounded integers, for
\* lower < upper.
ExactLiquidity1 == Div(Mul(amount_1, Pow2(32)), Sub(upper, lower))

\* C7: overflow fails, it never wraps or saturates.
\* get_liquidity_for_amount_0 fails whenever floor(lower * upper / 2^32)
\* exceeds 2^64 - 1 or floor(amount_0 * intermediate / (upper - lower))
\* exceeds 2^32 - 1; get_liquidity_for_amount_1 fails whenever
\* floor(amount_1 * 2^32 / (upper - lower)) exceeds 2^32 - 1; and a value
\* either one returns is the formula's value in unbounded integers.
OverflowFails ==
    /\ op = "get_liquidity_for_amount_0" =>
          /\ Gt(ExactIntermediate, Sub(Pow2(64), One)) => ~result.ok
          /\ (Lt(lower, upper) /\ Gt(ExactLiquidity0, Sub(Pow2(32), One)))
                => ~result.ok
          /\ result.ok => (Lt(lower, upper) /\ result.val = ExactLiquidity0)
    /\ op = "get_liquidity_for_amount_1" =>
          /\ (Lt(lower, upper) /\ Gt(ExactLiquidity1, Sub(Pow2(32), One)))
                => ~result.ok
          /\ result.ok => (Lt(lower, upper) /\ result.val = ExactLiquidity1)

\* A call whose intermediate fits 64 bits and whose liquidity does not fit
\* 32 bits: it fails.
OverflowFailsWitness ==
    /\ op = "get_liquidity_for_amount_0"
    /\ Lt(lower, upper)
    /\ Le(ExactIntermediate, Sub(Pow2(64), One))
    /\ Gt(ExactLiquidity0, Sub(Pow2(32), One))
    /\ ~result.ok

\* C8: a degenerate range is rejected by the liquidity computations.  With
\* equal boundaries get_liquidity_for_amount_0, get_liquidity_for_amount_1
\* and get_liquidity_for_amounts fail for every price and every amount.
DegenerateRangeRejected ==
    (/\ op \in { "get_liquidity_for_amount_0", "get_liquidity_for_amount_1",
                 "get_liquidity_for_amounts" }
     /\ sqrt_ratio_a_x32 = sqrt_ratio_b_x32) => ~result.ok

\* A zero deposit into a zero-width range at a non-zero price, priced at or
\* below the range: the call fails.
DegenerateRangeRejectedWitness ==
    /\ op = "get_liquidity_for_amounts"
    /\ sqrt_ratio_a_x32 = sqrt_ratio_b_x32
    /\ Gt(sqrt_ratio_a_x32, Zero)
    /\ Le(sqrt_ratio_x32, sqrt_ratio_a_x32)
    /\ amount_0 = Zero /\ amount_1 = Zero
    /\ ~result.ok

\* C9: flooring never overstates liquidity.  A liquidity L returned by
\* get_liquidity_for_amount_0 satisfies
\* L * (upper - lower) * 2^32 <= amount_0 * lower * upper, and one returned
\* by get_liquidity_for_amount_1 satisfies
\* L * (upper - lower) <= amount_1 * 2^32, in unbounded integers.
FlooringNeverOverstates ==
    /\ (op = "get_liquidity_for_amount_0" /\ result.ok) =>
          Le(Mul(Mul(result.val, Sub(upper, lower)), Pow2(32)),
             Mul(Mul(amount_0, lower), upper))
    /\ (op = "get_liquidity_for_amount_1" /\ result.ok) =>
          Le(Mul(result.val, Sub(upper, lower)), Mul(amount_1, Pow2(32)))

\* A positive token_1 liquidity that the division floored: strictly less
\* than the exact quotient.
FlooringNeverOverstatesWitness ==
    /\ op = "get_liquidity_for_amount_1"
    /\ result.ok
    /\ Gt(result.val, Zero)
    /\ Lt(Mul(result.val, Sub(upper, lower)), Mul(amount_1, Pow2(32)))

\* The test fixtures: boundaries 100:110 and 110:100, deposits 100 and 200.
PriceA == encode_price_sqrt_x32(100, 110)

PriceB == encode_price_sqrt_x32(110, 100)

\* C10: the reference scenarios.  With boundaries (PriceA, PriceB) and the
\* deposit (100, 200), get_liquidity_for_amounts returns 2148 at price 1:1,
\* 1048 at 99:110 and at PriceA, 2097 at 111:100 and at PriceB; and
\* get_amounts_for_liquidity returns (99, 99) for 2148 at 1:1, (99, 0) for
\* 1048 at 99:110 and at PriceA, (0, 199) for 2097 at 111:100 and at PriceB.
ReferenceScenarios ==
    /\ (/\ op = "get_liquidity_for_amounts"
        /\ sqrt_ratio_a_x32 = PriceA /\ sqrt_ratio_b_x32 = PriceB
        /\ amount_0 = FromNat(100) /\ amount_1 = FromNat(200)) =>
          /\ sqrt_ratio_x32 = encode_price_sqrt_x32(1, 1) =>
                result = Returns(FromNat(2148))
          /\ sqrt_ratio_x32 = encode_price_sqrt_x32(99, 110) =>
                result = Returns(FromNat(1048))
          /\ sqrt_ratio_x32 = encode_price_sqrt_x32(111, 100) =>
                result = Returns(FromNat(2097))
          /\ sqrt_ratio_x32 = PriceA => result = Returns(FromNat(1048))
          /\ sqrt_ratio_x32 = PriceB => result = Returns(FromNat(2097))
    /\ (/\ op = "get_amounts_for_liquidity"
        /\ sqrt_ratio_a_x32 = PriceA /\ sqrt_ratio_b_x32 = PriceB) =>
          /\ (/\ sqrt_ratio_x32 = encode_price_sqrt_x32(1, 1)
              /\ liquidity = FromNat(2148)) =>
                result = Returns(<<FromNat(99), FromNat(99)>>)
          /\ (/\ sqrt_ratio_x32 \in { encode_price_sqrt_x32(99, 110), PriceA }
              /\ liquidity = FromNat(1048)) =>
                result = Returns(<<FromNat(99), Zero>>)
          /\ (/\ sqrt_ratio_x32 \in { encode_price_sqrt_x32(111, 100), PriceB }
              /\ liquidity = FromNat(2097)) =>
                result = Returns(<<Zero, FromNat(199)>>)

\* The within-range valuation of the tests has been made.
ReferenceScenariosWitness ==
    /\ op = "get_amounts_for_liquidity"
    /\ sqrt_ratio_a_x32 = PriceA /\ sqrt_ratio_b_x32 = PriceB
    /\ sqrt_ratio_x32 = encode_price_sqrt_x32(1, 1)
    /\ liquidity = FromNat(2148)
    /\ result = Returns(<<FromNat(99), FromNat(99)>>)

\* liquidity * 2^32 in unbounded integers: the value the shift is to hold.
ExactShifted == Mul(liquidity, Pow2(32))

\* floor(liquidity * 2^32 * (upper - lower) / upper) in unbounded integers,
\* for upper > 0: the value the multiply-divide is to hold.
ExactScaled == Div(Mul(ExactShifted, Sub(upper, lower)), upper)

\* C11: get_amount_0_for_liquidity fails if and only if the smaller
\* boundary is zero.  With min(a, b) > 0 (equal boundaries included) it
\* returns floor(floor(liquidity * 2^32 * (upper - lower) / upper) / lower),
\* and neither liquidity << 32 nor the multiply-divide result exceeds
\* 2^64 - 1; with min(a, b) = 0 it fails for every liquidity.
Amount0FailsIffLowerZero ==
    op = "get_amount_0_for_liquidity" =>
        /\ result.ok <=> Gt(lower, Zero)
        /\ Gt(lower, Zero) =>
              /\ Le(ExactShifted, Sub(Pow2(64), One))
              /\ Le(ExactScaled, Sub(Pow2(64), One))
              /\ result.val = Div(ExactScaled, lower)

\* The largest liquidity over the widest range with non-zero boundaries: a
\* positive amount is returned.
Amount0FailsIffLowerZeroWitness ==
    /\ op = "get_amount_0_for_liquidity"
    /\ Gt(lower, Zero)
    /\ Lt(lower, upper)
    /\ liquidity = Sub(Pow2(32), One)
    /\ result.ok
    /\ Gt(result.val, Zero)

\* C12: a degenerate range is valued at zero by the amount computations.
\* With equal, non-zero boundaries get_amounts_for_liquidity returns (0, 0)
\* for every price and liquidity, and get_amount_0_for_liquidity and
\* get_amount_1_for_liquidity return 0: none of them fails.
DegenerateRangeValuedZero ==
    (sqrt_ratio_a_x32 = sqrt_ratio_b_x32 /\ Gt(sqrt_ratio_a_x32, Zero)) =>
        /\ op = "get_amounts_for_liquidity" =>
              result = Returns(<<Zero, Zero>>)
        /\ op = "get_amount_0_for_liquidity" => result = Returns(Zero)
        /\ op = "get_amount_1_for_liquidity" => result = Returns(Zero)

\* A positive liquidity over a zero-width range, priced above it: the call
\* returns (0, 0).
DegenerateRangeValuedZeroWitness ==
    /\ op = "get_amounts_for_liquidity"
    /\ sqrt_ratio_a_x32 = sqrt_ratio_b_x32
    /\ Gt(sqrt_ratio_a_x32, Zero)
    /\ Gt(sqrt_ratio_x32, sqrt_ratio_a_x32)
    /\ Gt(liquidity, Zero)
    /\ result = Returns(<<Zero, Zero>>)

=============================================================================
